---- MODULE Spec2Model ----
(***************************************************************************)
(* State-machine model of the textbook RAG backend: the GeminiRAG core     *)
(* (src/gemini_rag.py) and the HTTP handlers that drive it (src/main.py).  *)
(*                                                                         *)
(* Text is modelled as a sequence of tokens (each token a piece of the     *)
(* Python string), so that concatenation is \o, "contains" is a            *)
(* contiguous sub-sequence and an f-string is the concatenation of its     *)
(* literal pieces and the str() of its fields.  Python values carry their  *)
(* type, so that None, a str and an int stay distinguishable and str() of  *)
(* None is the text "None".  Floats are modelled by integers (0.0 by 0,    *)
(* a score of 0.9 by 90).  A list of floats is kept run-length encoded: a  *)
(* sequence of runs [value, count], so that [x] * n is one run.            *)
(***************************************************************************)
EXTENDS Integers, Sequences, FiniteSets, TLC

(***************************************************************************)
(* Python values                                                           *)
(***************************************************************************)
None == [type |-> "NoneType", val |-> <<>>]

Str(s) == [type |-> "str", val |-> s]

IntVal(tok) == [type |-> "int", val |-> <<tok>>]

Dict(items) == [type |-> "dict", items |-> items]

\* str(v), as an f-string field applies it
Format(v) == IF v.type = "NoneType" THEN <<"None">> ELSE v.val

\* bool(v), as `if v:` applies it
Truthy(v) ==
    CASE v.type = "NoneType" -> FALSE
      [] v.type = "dict" -> DOMAIN v.items # {}
      [] OTHER -> v.val # <<>>

\* the outcome of evaluating a Python expression or call
Return(v) == [raised |-> FALSE, value |-> v]

Raise(e) == [raised |-> TRUE, exc |-> e]

\* d.get(key, default)
DictGet(d, key, default) ==
    IF key \in DOMAIN d.items THEN d.items[key] ELSE default

RECURSIVE JoinTokens(_, _)
JoinTokens(sep, list) ==
    IF list = <<>> THEN <<>>
    ELSE IF Len(list) = 1 THEN list[1].val
    ELSE list[1].val \o sep \o JoinTokens(sep, Tail(list))

\* sep.join(list): TypeError unless every item is a str
Join(sep, list) ==
    IF \E i \in 1..Len(list) : list[i].type # "str"
    THEN Raise(<<"sequence item: expected str instance">>)
    ELSE Return(JoinTokens(sep, list))

(***************************************************************************)
(* Bounds and program constants                                            *)
(***************************************************************************)
\* most rows the chat_messages table of the model holds
MaxChats == 1

\* the ask requests answered in a behaviour of SpecChat
MaxRepeats == 2

\* most rows the sessions table of the model holds
MaxSessions == 2

\* the clock of the model runs over MaxLifetimes session lifetimes, and shows
\* the first MaxSkew seconds after each
MaxLifetimes == 1

MaxSkew == 1

\* [0.0] * 768
EMBEDDING_DIM == 768

\* the lifetime of a session, in minutes
ACCESS_TOKEN_EXPIRE_MINUTES == 10080

\* search_context(self, query, limit: int = 3)
DEFAULT_LIMIT == 3

\* score=0.9 of the mock client's point, in hundredths
MOCK_SCORE == 90

(***************************************************************************)
(* Fixed texts of the program                                              *)
(***************************************************************************)
ROS2_PREFIX == "ROS 2 is a middleware framework for robotics"

\* MockQdrantClient.search: payload={"text": "ROS 2 is a middleware framework for robotics..."}
MOCK_PASSAGE == <<ROS2_PREFIX, "...">>

\* search_context, except branch
FALLBACK_PASSAGE == <<ROS2_PREFIX, " applications.">>

\* "Please respond in Urdu (<Urdu script>) with proper RTL formatting."
URDU_INSTRUCTION ==
    <<"Please respond in Urdu (", "U+0627 U+0631 U+062F U+0648", ") with proper RTL formatting.">>

APOLOGY_PREFIX ==
    <<"I apologize, but I encountered an ", "error", " generating a response. Error: ">>

SOURCES == <<"Textbook Content">>

(***************************************************************************)
(* GeminiRAG (src/gemini_rag.py).  A provider call is given its outcome,   *)
(* which the environment chooses: kind "ok" with a well-formed response,   *)
(* "raise" with the exception's message, "malformed" with a response that  *)
(* lacks what the code reads from it.                                      *)
(***************************************************************************)
\* [x] * n
ListRepeat(x, n) == IF n > 0 THEN <<[value |-> x, count |-> n]>> ELSE <<>>

ZERO_VECTOR == ListRepeat(0, EMBEDDING_DIM)

\* d[key] on a response object
Subscript(d, key) ==
    IF key \in DOMAIN d THEN Return(d[key]) ELSE Raise(<<"KeyError: ", key>>)

\* genai.embed_content(model=..., content=text, task_type=...)
embed_content(text, outcome) ==
    IF outcome.kind = "raise" THEN Raise(outcome.exc) ELSE Return(outcome.result)

\* the same method with the try/except left out
generate_embedding_unguarded(text, outcome) ==
    LET result == embed_content(text, outcome)
    IN  IF result.raised THEN result ELSE Subscript(result.value, "embedding")

\* the same method with the fallback vector one element short
generate_embedding_short(text, outcome) ==
    LET body == generate_embedding_unguarded(text, outcome)
    IN  IF body.raised THEN Return(ListRepeat(0, EMBEDDING_DIM - 1)) ELSE body

generate_embedding(text, outcome) ==
    LET result == embed_content(text, outcome)
        body == IF result.raised THEN result
                ELSE Subscript(result.value, "embedding")
    IN  IF body.raised THEN Return(ZERO_VECTOR) ELSE body

\* MockQdrantClient.search(collection_name, query_vector, limit=3)
MockQdrantClient_search(query_vector, limit) ==
    << [id |-> 1, score |-> MOCK_SCORE,
        payload |-> Dict([text |-> Str(MOCK_PASSAGE)])] >>

\* qdrant_client.search(collection_name=..., query_vector=..., limit=limit)
qdrant_search(client, query_vector, limit, outcome) ==
    IF client = "MockQdrantClient"
    THEN Return(MockQdrantClient_search(query_vector, limit))
    ELSE IF outcome.kind = "raise" THEN Raise(outcome.exc)
    ELSE Return(outcome.hits)

\* hit.payload.get("text", "")
HitText(hit) ==
    IF hit.payload.type = "NoneType"
    THEN Raise(<<"'NoneType' object has no attribute 'get'">>)
    ELSE Return(DictGet(hit.payload, "text", Str(<<>>)))

\* the list comprehension walking the hits from the last to the first
HitTextsReversed(search_results) ==
    LET n == Len(search_results)
    IN  IF \E i \in 1..n : HitText(search_results[i]).raised
        THEN Raise(<<"'NoneType' object has no attribute 'get'">>)
        ELSE Return([i \in 1..n |-> HitText(search_results[n + 1 - i]).value])

\* [hit.payload.get("text", "") for hit in search_results]
HitTexts(search_results) ==
    IF \E i \in 1..Len(search_results) : HitText(search_results[i]).raised
    THEN Raise(<<"'NoneType' object has no attribute 'get'">>)
    ELSE Return([i \in 1..Len(search_results) |-> HitText(search_results[i]).value])

\* the body of search_context's try block
search_context_try(query, limit, client, embed_outcome, search_outcome) ==
    LET query_vector == generate_embedding(query, embed_outcome)
        search_results ==
            IF query_vector.raised THEN query_vector
            ELSE qdrant_search(client, query_vector.value, limit, search_outcome)
    IN  IF search_results.raised THEN search_results
        ELSE HitTexts(search_results.value)

search_context(query, limit, client, embed_outcome, search_outcome) ==
    LET body == search_context_try(query, limit, client, embed_outcome, search_outcome)
    IN  IF body.raised THEN Return(<<Str(FALLBACK_PASSAGE)>>) ELSE body

\* the personalization block of generate_answer's prompt
Personalization(user_profile) ==
    IF Truthy(user_profile)
    THEN <<"\n", "User Profile:\n", "- Software Background: ">>
         \o Format(DictGet(user_profile, "software_background", Str(<<"Unknown">>)))
         \o <<"\n", "- Hardware Background: ">>
         \o Format(DictGet(user_profile, "hardware_background", Str(<<"Unknown">>)))
         \o <<"\n", "- Experience Level: ">>
         \o Format(DictGet(user_profile, "experience_level", Str(<<"beginner">>)))
         \o <<"\n", "- OS: ">>
         \o Format(DictGet(user_profile, "operating_system", Str(<<"Unknown">>)))
         \o <<"\n", "\n",
              "Adapt your answer to match the user's background and experience level.\n">>
    ELSE <<>>

\* the language test comparing against the default locale instead
LanguageInstructionNotEn(language) ==
    IF language # Str(<<"en">>) THEN URDU_INSTRUCTION ELSE <<>>

LanguageInstruction(language) ==
    IF language = Str(<<"ur">>) THEN URDU_INSTRUCTION ELSE <<>>

INSTRUCTIONS ==
    <<"Instructions:\n",
      "1. Answer ONLY based on the provided context from the textbook\n",
      "2. If the context doesn't contain the answer, say \"I don't have enough information in the textbook to answer that.\"\n",
      "3. Be concise but thorough\n",
      "4. Use examples from the context when relevant\n",
      "5. If personalization info is provided, adapt your explanation to the user's level\n",
      "\n", "Answer:">>

\* the prompt generate_answer builds, or the TypeError of the join
BuildPrompt(question, context, user_profile, language) ==
    LET context_text == Join(<<"\n\n">>, context)
    IN  IF context_text.raised THEN context_text
        ELSE Return(
            <<"You are an AI assistant for a Physical AI & Humanoid Robotics textbook.\n", "\n">>
            \o Personalization(user_profile)
            \o <<"\n", "\n", "Context from the textbook:\n">>
            \o context_text.value
            \o <<"\n", "\n">>
            \o LanguageInstruction(language)
            \o <<"\n", "\n", "User Question: ">>
            \o Format(question)
            \o <<"\n", "\n">>
            \o INSTRUCTIONS)

\* self.model.generate_content(prompt) followed by response.text
generate_content_text(prompt, outcome) ==
    IF outcome.kind = "ok" THEN Return(Str(outcome.text)) ELSE Raise(outcome.exc)

\* generate_answer with the try/except around the provider call left out
generate_answer_unguarded(question, context, user_profile, language, outcome) ==
    LET prompt == BuildPrompt(question, context, user_profile, language)
    IN  IF prompt.raised THEN prompt
        ELSE generate_content_text(prompt.value, outcome)

\* generate_answer with an apology that leaves the error message out
generate_answer_no_message(question, context, user_profile, language, outcome) ==
    LET body == generate_answer_unguarded(question, context, user_profile, language, outcome)
        prompt == BuildPrompt(question, context, user_profile, language)
    IN  IF prompt.raised THEN prompt
        ELSE IF body.raised THEN Return(Str(APOLOGY_PREFIX))
        ELSE body

generate_answer(question, context, user_profile, language, outcome) ==
    LET prompt == BuildPrompt(question, context, user_profile, language)
    IN  IF prompt.raised THEN prompt
        ELSE LET response == generate_content_text(prompt.value, outcome)
             IN  IF response.raised
                 THEN Return(Str(APOLOGY_PREFIX \o response.exc))
                 ELSE response

TranslatePrompt(text) ==
    <<"Translate the following text to Urdu (", "U+0627 U+0631 U+062F U+0648", "). \n",
      "Maintain technical terms in English if they don't have common Urdu equivalents.\n",
      "Use proper RTL formatting.\n", "\n", "Text to translate:\n">>
    \o Format(text)
    \o <<"\n", "\n", "Urdu Translation:">>

\* translate_to_urdu answering a failure with the apology instead
translate_to_urdu_apology(text, outcome) ==
    LET response == generate_content_text(TranslatePrompt(text), outcome)
    IN  IF response.raised THEN Return(Str(APOLOGY_PREFIX \o response.exc)) ELSE response

translate_to_urdu(text, outcome) ==
    LET response == generate_content_text(TranslatePrompt(text), outcome)
    IN  IF response.raised THEN Return(text) ELSE response

PersonalizePrompt(content, user_profile) ==
    <<"Adapt the following educational content for a user with this profile:\n",
      "- Software Background: ">>
    \o Format(DictGet(user_profile, "software_background", Str(<<"Unknown">>)))
    \o <<"\n", "- Hardware Background: ">>
    \o Format(DictGet(user_profile, "hardware_background", Str(<<"Unknown">>)))
    \o <<"\n", "- Experience Level: ">>
    \o Format(DictGet(user_profile, "experience_level", Str(<<"beginner">>)))
    \o <<"\n", "\n", "Original Content:\n">>
    \o Format(content)
    \o <<"\n", "\n", "Instructions:\n",
         "1. Adjust complexity to match experience level\n",
         "2. Add relevant examples based on their background\n",
         "3. Use analogies they would understand\n",
         "4. Keep the same structure and key concepts\n",
         "\n", "Personalized Content:">>

personalize_content(content, user_profile, outcome) ==
    LET response == generate_content_text(PersonalizePrompt(content, user_profile), outcome)
    IN  IF response.raised THEN Return(content) ELSE response

(***************************************************************************)
(* Stored data and request inputs of the model                             *)
(***************************************************************************)
Users == {1, 2, 3}

\* a user_profiles row as signup stores it (src/main.py, signup), with the
\* column defaults of models.UserProfile
ProfileRow(software, hardware, os) ==
    [software_background |-> software, hardware_background |-> hardware,
     operating_system |-> os, gpu_hardware |-> None,
     experience_level |-> Str(<<"beginner">>),
     preferred_language |-> Str(<<"en">>)]

\* user 1 signed up without the optional fields, user 2 with some of them,
\* user 3 has no user_profiles row
InitialProfiles ==
    [u \in Users |->
        CASE u = 1 -> ProfileRow(None, None, None)
          [] u = 2 -> ProfileRow(Str(<<"Python">>), None, Str(<<"Linux">>))
          [] OTHER -> None]

\* a row of table users: the table has no column for a password
User(email, name) == [email |-> email, name |-> name]

\* the users that signed up before the first request of a behaviour
InitialUsers ==
    [u \in Users |->
        CASE u = 1 -> User("ada@example.com", "Ada")
          [] u = 2 -> User("bob@example.com", "Bob")
          [] OTHER -> User("eve@example.com", "Eve")]

Questions == {Str(<<"What is ROS 2?">>)}

SelectedTexts == {None, Str(<<>>), Str(<<"Nodes exchange messages over topics.">>)}

Languages == {Str(<<"en">>), Str(<<"ur">>), Str(<<"fr">>)}

Contents == {Str(<<"A ROS 2 node is a process that performs computation.">>)}

NoOutcome == [kind |-> "none"]

\* what genai.embed_content can do
EmbedOutcomes ==
    { [kind |-> "ok",
       result |-> [embedding |-> ListRepeat(3, 1) \o ListRepeat(1, EMBEDDING_DIM - 1)]],
      [kind |-> "raise", exc |-> <<"429 embedding quota exceeded">>],
      [kind |-> "malformed", result |-> [error |-> <<"no embedding">>]] }

\* the points of the textbook_content collection, with the payload that
\* ingest_content.py stores, and payloads that lack what search_context reads
Point(id, score, payload) == [id |-> id, score |-> score, payload |-> payload]

Points ==
    { Point(1, 95, Dict([text |-> Str(<<"ROS 2 nodes communicate over topics.">>),
                         source |-> Str(<<"ros2/intro.md">>)])),
      Point(2, 80, Dict([source |-> Str(<<"humanoid/balance.md">>)])),
      Point(3, 70, None),
      Point(4, 60, Dict([text |-> IntVal("42")])) }

\* the hits in descending order of score
RECURSIVE Ranked(_)
Ranked(S) ==
    IF S = {} THEN <<>>
    ELSE LET top == CHOOSE p \in S : \A q \in S : q.score <= p.score
         IN  <<top>> \o Ranked(S \ {top})

\* what the client's search can do for a request of `limit` hits.  The Qdrant
\* client raises, or returns at most `limit` points of the collection, best
\* score first (the collection's distance is COSINE); the mock client returns
\* its one point
SearchOutcomes(client, limit) ==
    IF client = "MockQdrantClient"
    THEN { [kind |-> "ok", hits |-> MockQdrantClient_search(<<>>, limit)] }
    ELSE { [kind |-> "raise", exc |-> <<"Qdrant: connection refused">>] }
         \cup { [kind |-> "ok", hits |-> Ranked(S)] :
                  S \in { T \in SUBSET Points : Cardinality(T) <= limit } }

\* what generate_content followed by response.text can do
GenerateOutcomes ==
    { [kind |-> "ok", text |-> <<"ROS 2 is a set of libraries for robot software.">>],
      [kind |-> "raise", exc |-> <<"503 model overloaded">>],
      [kind |-> "malformed", exc |-> <<"response.text requires a valid Part">>] }

\* no hit of the response lacks its payload or carries a text that is no str
WellFormedHits(hits) ==
    \A i \in 1..Len(hits) :
        /\ hits[i].payload.type = "dict"
        /\ "text" \in DOMAIN hits[i].payload.items
               => hits[i].payload.items["text"].type = "str"

(***************************************************************************)
(* State                                                                   *)
(***************************************************************************)
VARIABLES
    qdrant_client,   \* "QdrantClient" or "MockQdrantClient" (module initialisation)
    user_profiles,   \* table user_profiles: user id -> row, or None
    chat_messages,   \* table chat_messages, in insertion order
    pc,              \* "idle", "embed", "search", "generate", "done"
    request,         \* the request being handled
    current_user,    \* the user get_current_user resolved, 0 when idle
    user_profile,    \* ask_question / personalize_content: the dict built, or None
    query,           \* ask_question: the text given to search_context
    query_vector,    \* search_context: what generate_embedding returned
    context,         \* ask_question: what search_context returned
    prompt,          \* the prompt given to generate_content
    embed_outcome,   \* search_context: what genai.embed_content did, until it returns
    outcomes,        \* the kind of outcome of each provider call of this request
    calls,           \* the provider calls of this request, in order, with the
                     \* text an embed call was given and a search call's limit
    response,        \* the handler's response: status 200 with a body, or an error
    prompts,         \* history kept by SpecChat: the prompt composed for each ask
                     \* request so far, with the inputs it was composed from
    users,           \* table users: user id -> row
    sessions,        \* table sessions: the set of its rows
    now,             \* the clock (datetime.utcnow()), in seconds
    deleted_token    \* history: the token delete_session last ran for, "" if none

vars == <<qdrant_client, user_profiles, chat_messages, pc, request, current_user,
          user_profile, query, query_vector, context, prompt, embed_outcome,
          outcomes, calls, response, prompts, users, sessions, now,
          deleted_token>>

\* what the handlers of the RAG endpoints leave alone: the vector client,
\* the tables of users, profiles and sessions, and the clock
db == <<qdrant_client, user_profiles, users, sessions, now, deleted_token>>

NoRequest == [endpoint |-> "none"]

\* what is kept of a provider's outcome: its kind and the exception's message.
\* A search response with a hit that lacks a payload or a str text is malformed
Summary(outcome) ==
    [kind |-> IF "hits" \in DOMAIN outcome /\ ~WellFormedHits(outcome.hits)
              THEN "malformed" ELSE outcome.kind,
     exc |-> IF "exc" \in DOMAIN outcome THEN outcome.exc ELSE <<>>]

NoOutcomes ==
    [embed |-> Summary(NoOutcome), search |-> Summary(NoOutcome),
     generate |-> Summary(NoOutcome)]

NoResponse == [status |-> 0]

\* an exception that leaves the handler: FastAPI answers 500
ServerError(exc) == [status |-> 500, exc |-> exc]

Init ==
    /\ qdrant_client \in {"QdrantClient", "MockQdrantClient"}
    /\ user_profiles = InitialProfiles
    /\ chat_messages = <<>>
    /\ pc = "idle"
    /\ request = NoRequest
    /\ current_user = 0
    /\ user_profile = None
    /\ query = None
    /\ query_vector = <<>>
    /\ context = <<>>
    /\ prompt = None
    /\ embed_outcome = NoOutcome
    /\ outcomes = NoOutcomes
    /\ calls = <<>>
    /\ response = NoResponse
    /\ prompts = <<>>
    /\ users = InitialUsers
    /\ sessions = {}
    /\ now = 0
    /\ deleted_token = <<>>

(***************************************************************************)
(* ask_question (src/main.py)                                              *)
(***************************************************************************)
\* the dict ask_question builds from the stored row
AskProfile(profile) ==
    IF profile = None THEN None
    ELSE Dict([software_background |-> profile.software_background,
               hardware_background |-> profile.hardware_background,
               experience_level |-> profile.experience_level,
               operating_system |-> profile.operating_system])

\* the query that leaves the selected text out
BuildQueryQuestionOnly(question, selected_text) == question

BuildQuery(question, selected_text) ==
    IF Truthy(selected_text)
    THEN Str(<<"Based on this text: '">> \o Format(selected_text)
             \o <<"'\n\nQuestion: ">> \o Format(question))
    ELSE question

\* the handler up to the call of the embedding provider
AskQuestion(user, question, selected_text, language) ==
    /\ pc = "idle"
    /\ pc' = "embed"
    /\ request' = [endpoint |-> "ask", question |-> question,
                   selected_text |-> selected_text, language |-> language]
    /\ current_user' = user
    /\ user_profile' = AskProfile(user_profiles[user])
    /\ query' = BuildQuery(question, selected_text)
    /\ UNCHANGED <<db, chat_messages, prompts, query_vector, context, prompt,
                   embed_outcome, outcomes, calls, response>>

\* search_context is over: its result goes on to generate_answer, an
\* exception leaves the handler
SearchContextOver(result) ==
    IF result.raised
    THEN /\ pc' = "done"
         /\ response' = ServerError(result.exc)
         /\ UNCHANGED context
    ELSE /\ pc' = "generate"
         /\ context' = result.value
         /\ UNCHANGED response

\* genai.embed_content returns or raises inside generate_embedding
EmbedReturns(outcome) ==
    /\ pc = "embed"
    /\ calls' = Append(calls, [api |-> "embed", content |-> query.val])
    /\ outcomes' = [outcomes EXCEPT !.embed = Summary(outcome)]
    /\ LET embedding == generate_embedding(query.val, outcome)
       IN  IF embedding.raised
           THEN /\ SearchContextOver(
                       search_context(query.val, DEFAULT_LIMIT, qdrant_client,
                                      outcome, NoOutcome))
                /\ UNCHANGED <<query_vector, embed_outcome>>
           ELSE /\ pc' = "search"
                /\ query_vector' = embedding.value
                /\ embed_outcome' = outcome
                /\ UNCHANGED <<context, response>>
    /\ UNCHANGED <<db, chat_messages, prompts, request, current_user, user_profile, query,
                   prompt>>

\* qdrant_client.search returns or raises; search_context returns
SearchReturns(outcome) ==
    /\ pc = "search"
    /\ calls' = Append(calls, [api |-> "search", limit |-> DEFAULT_LIMIT])
    /\ outcomes' = [outcomes EXCEPT !.search = Summary(outcome)]
    /\ SearchContextOver(
           search_context(query.val, DEFAULT_LIMIT, qdrant_client,
                          embed_outcome, outcome))
    /\ query_vector' = <<>>
    /\ embed_outcome' = NoOutcome
    /\ UNCHANGED <<db, chat_messages, prompts, request, current_user, user_profile, query,
                   prompt>>

\* a row that is left with the column's default language
ChatMessageDefaultLanguage(user, question, answer, context_used, language) ==
    [user_id |-> user, message |-> question, response |-> answer,
     context_used |-> context_used, language |-> Str(<<"en">>)]

\* the row ask_question adds to chat_messages
ChatMessage(user, question, answer, context_used, language) ==
    [user_id |-> user, message |-> question, response |-> answer,
     context_used |-> context_used, language |-> language]

\* a response that names one source for each passage of the context
AskResponsePerPassage(answer, passages) ==
    [status |-> 200,
     body |-> [answer |-> answer,
               sources |-> [i \in 1..Len(passages) |-> "Textbook Content"]]]

\* the body ask_question returns
AskResponse(answer, passages) ==
    [status |-> 200, body |-> [answer |-> answer, sources |-> SOURCES]]

\* history: a prompt with the inputs it was composed from
Composed(question, passages, profile, language, text) ==
    [question |-> question, context |-> passages, user_profile |-> profile,
     language |-> language, prompt |-> text]

\* a prompt that carries the user's earlier exchanges before the passages
AskPromptWithHistory ==
    BuildPrompt(request.question,
                [i \in 1..Len(chat_messages) |-> chat_messages[i].response]
                    \o context,
                user_profile, request.language)

\* the prompt of the request: generate_answer is given the question, the
\* context, the profile and the language of this request
AskPrompt ==
    BuildPrompt(request.question, context, user_profile, request.language)

\* generate_answer cannot build its prompt: the TypeError leaves the handler
PromptRaises ==
    /\ pc = "generate"
    /\ LET built == AskPrompt
       IN  /\ built.raised
           /\ response' = ServerError(built.exc)
    /\ pc' = "done"
    /\ UNCHANGED <<db, chat_messages, prompts, request, current_user, user_profile, query,
                   query_vector, context, prompt, embed_outcome, outcomes, calls>>

\* generate_content returns or raises; the rest of the handler: the chat
\* message is stored and the response returned.  The history of prompts is
\* left to the specification: see RecordPrompt
GenerateReturns(outcome) ==
    /\ pc = "generate"
    /\ LET built == AskPrompt
           answer == generate_answer(request.question, context, user_profile,
                                     request.language, outcome)
           context_used == Join(<<"\n">>, context)
       IN  /\ ~built.raised
           /\ prompt' = Str(built.value)
           /\ IF answer.raised
              THEN /\ response' = ServerError(answer.exc)
                   /\ UNCHANGED chat_messages
              ELSE /\ chat_messages' =
                          Append(chat_messages,
                                 ChatMessage(current_user, request.question,
                                             answer.value, Str(context_used.value),
                                             request.language))
                   /\ response' = AskResponse(answer.value, context)
    /\ calls' = Append(calls, [api |-> "generate"])
    /\ outcomes' = [outcomes EXCEPT !.generate = Summary(outcome)]
    /\ pc' = "done"
    /\ UNCHANGED <<db, request, current_user, user_profile, query, query_vector,
                   context, embed_outcome>>

(***************************************************************************)
(* personalize_content and translate_content (src/main.py): one provider   *)
(* call each                                                               *)
(***************************************************************************)
\* the dict the personalize handler builds from the stored row
PersonalizeProfile(profile) ==
    Dict([software_background |-> profile.software_background,
          hardware_background |-> profile.hardware_background,
          experience_level |-> profile.experience_level])

PersonalizeContent(user, content, outcome) ==
    /\ pc = "idle"
    /\ pc' = "done"
    /\ request' = [endpoint |-> "personalize", content |-> content]
    /\ current_user' = user
    /\ IF user_profiles[user] = None
       THEN /\ response' = [status |-> 400, detail |-> "User profile not found"]
            /\ UNCHANGED <<user_profile, prompt, outcomes, calls>>
       ELSE LET profile == PersonalizeProfile(user_profiles[user])
                personalized == personalize_content(content, profile, outcome)
            IN  /\ user_profile' = profile
                /\ prompt' = Str(PersonalizePrompt(content, profile))
                /\ outcomes' = [outcomes EXCEPT !.generate = Summary(outcome)]
                /\ calls' = Append(calls, [api |-> "generate"])
                /\ response' =
                       IF personalized.raised THEN ServerError(personalized.exc)
                       ELSE [status |-> 200,
                             body |-> [personalized_content |-> personalized.value]]
    /\ UNCHANGED <<db, chat_messages, prompts, query, query_vector, context, embed_outcome>>

TranslateContent(user, content, outcome) ==
    /\ pc = "idle"
    /\ pc' = "done"
    /\ request' = [endpoint |-> "translate", content |-> content]
    /\ current_user' = user
    /\ LET translated == translate_to_urdu(content, outcome)
       IN  response' =
               IF translated.raised THEN ServerError(translated.exc)
               ELSE [status |-> 200,
                     body |-> [translated_content |-> translated.value]]
    /\ prompt' = Str(TranslatePrompt(content))
    /\ outcomes' = [outcomes EXCEPT !.generate = Summary(outcome)]
    /\ calls' = Append(calls, [api |-> "generate"])
    /\ UNCHANGED <<db, chat_messages, prompts, user_profile, query, query_vector, context,
                   embed_outcome>>

\* the response is sent; the handler's frame is gone
Respond ==
    /\ pc = "done"
    /\ pc' = "idle"
    /\ request' = NoRequest
    /\ current_user' = 0
    /\ user_profile' = None
    /\ query' = None
    /\ query_vector' = <<>>
    /\ context' = <<>>
    /\ prompt' = None
    /\ embed_outcome' = NoOutcome
    /\ outcomes' = NoOutcomes
    /\ calls' = <<>>
    /\ response' = NoResponse
    /\ UNCHANGED <<db, chat_messages, prompts>>

Next ==
    \/ \E user \in Users, question \in Questions,
          selected_text \in SelectedTexts, language \in Languages :
           /\ Len(chat_messages) < MaxChats
           /\ AskQuestion(user, question, selected_text, language)
    \/ \E outcome \in EmbedOutcomes : EmbedReturns(outcome)
    \/ \E outcome \in SearchOutcomes(qdrant_client, DEFAULT_LIMIT) : SearchReturns(outcome)
    \/ PromptRaises
    \/ \E outcome \in GenerateOutcomes :
           GenerateReturns(outcome) /\ UNCHANGED prompts
    \/ \E user \in Users, content \in Contents, outcome \in GenerateOutcomes :
           PersonalizeContent(user, content, outcome)
    \/ \E user \in Users, content \in Contents, outcome \in GenerateOutcomes :
           TranslateContent(user, content, outcome)
    \/ Respond

Spec == Init /\ [][Next]_vars

(***************************************************************************)
(* Repeated ask requests: the same question asked again, by the same or by *)
(* another user, with other requests in between.  The handlers are         *)
(* coroutines that never await, so that one process runs them one at a     *)
(* time.                                                                   *)
(***************************************************************************)
\* a search that raises, or returns the one point that carries a text
ChatSearchOutcomes(client) ==
    { o \in SearchOutcomes(client, DEFAULT_LIMIT) :
          o.kind = "ok" => (Len(o.hits) = 1 /\ o.hits[1].id = 1) }

\* the history of prompts: the prompt this step composed is recorded with the
\* question, context, profile and language of the request
RecordPrompt ==
    prompts' = Append(prompts,
                      Composed(request.question, context, user_profile,
                               request.language, prompt'))

\* a provider that answers or raises
Answering(outcomes_) == { o \in outcomes_ : o.kind \in {"ok", "raise"} }

NextChat ==
    \/ \E user \in Users, question \in Questions,
          language \in {Str(<<"en">>), Str(<<"ur">>)} :
           /\ Len(chat_messages) < MaxRepeats
           /\ AskQuestion(user, question, None, language)
    \/ \E outcome \in Answering(EmbedOutcomes) : EmbedReturns(outcome)
    \/ \E outcome \in ChatSearchOutcomes(qdrant_client) : SearchReturns(outcome)
    \/ \E outcome \in Answering(GenerateOutcomes) :
           GenerateReturns(outcome) /\ RecordPrompt
    \/ \E user \in Users, content \in Contents,
          outcome \in Answering(GenerateOutcomes) :
           PersonalizeContent(user, content, outcome)
    \/ \E user \in Users, content \in Contents,
          outcome \in Answering(GenerateOutcomes) :
           TranslateContent(user, content, outcome)
    \/ Respond

SpecChat == Init /\ [][NextChat]_vars

(***************************************************************************)
(* Sessions (src/auth.py).  A str that may be absent (a cookie, a header)  *)
(* is a sequence of pieces, empty when the value is None or "": the code   *)
(* tests such values for truth only.  A piece is a text or a signed token.  *)
(***************************************************************************)
SECRET == "better_auth_secret"

SESSION_SECONDS == ACCESS_TOKEN_EXPIRE_MINUTES * 60

\* str(user_id) and int(sub)
DIGITS == <<"1", "2", "3", "4", "5", "6">>

StrOfInt(n) == DIGITS[n]

IntOfStr(text) == CHOOSE n \in 1..Len(DIGITS) : DIGITS[n] = text

Text(text) == [text |-> text]

\* jwt.encode: the claims signed with the key; a datetime claim is encoded
\* as its whole seconds
jwt_encode(claims, key) == [claims |-> claims, key |-> key]

\* jwt.decode at time t: the claims, or JWTError
jwt_decode(token, key, t) ==
    IF Len(token) # 1 \/ "claims" \notin DOMAIN token[1]
    THEN Raise(<<"Not enough segments">>)
    ELSE IF token[1].key # key
    THEN Raise(<<"Signature verification failed.">>)
    ELSE IF token[1].claims.exp < t
    THEN Raise(<<"Signature has expired.">>)
    ELSE Return(token[1].claims)

create_session_token(user_id, t) ==
    <<jwt_encode([sub |-> StrOfInt(user_id), exp |-> t + SESSION_SECONDS], SECRET)>>

\* the user id of the token, or 0 for None (no user has id 0)
verify_session_token(token, t) ==
    LET payload == jwt_decode(token, SECRET, t)
    IN  IF payload.raised THEN 0 ELSE IntOfStr(payload.value.sub)

\* a row of table sessions
Session(session_token, user_id, expires_at) ==
    [session_token |-> session_token, user_id |-> user_id, expires_at |-> expires_at]

\* the table after create_session, or the IntegrityError of the commit: the
\* column session_token is unique
create_session(table, user_id, t) ==
    LET session_token == create_session_token(user_id, t)
        db_session == Session(session_token, user_id, t + SESSION_SECONDS)
    IN  IF \E row \in table : row.session_token = session_token
        THEN Raise(<<"IntegrityError: UNIQUE constraint failed: sessions.session_token">>)
        ELSE Return([table |-> table \cup {db_session}, session |-> db_session])

\* the id of the user of the session, or 0 for None
get_user_from_session(table, user_table, session_token, t) ==
    LET user_id == verify_session_token(session_token, t)
    IN  IF user_id = 0 THEN 0
        ELSE IF ~\E row \in table :
                    /\ row.session_token = session_token
                    /\ row.expires_at > t
        THEN 0
        ELSE IF user_id \in DOMAIN user_table THEN user_id ELSE 0

delete_session(table, session_token) ==
    { row \in table : row.session_token # session_token }

(***************************************************************************)
(* get_current_user and the auth routes (src/main.py)                      *)
(***************************************************************************)
HTTPException(status_code, detail) == [status |-> status_code, detail |-> detail]

BEARER == Text("Bearer ")

\* authorization.replace("Bearer ", "")
RemoveBearer(authorization) == SelectSeq(authorization, LAMBDA piece : piece # BEARER)

\* the token get_current_user reads: the cookie first, then the header
RequestToken(cookie, authorization) ==
    IF cookie = <<>> /\ authorization # <<>> /\ authorization[1] = BEARER
    THEN RemoveBearer(authorization)
    ELSE cookie

\* the id of the current user, or the HTTPException
get_current_user(cookie, authorization, table, user_table, t) ==
    LET token == RequestToken(cookie, authorization)
    IN  IF token = <<>> THEN Raise(HTTPException(401, "Not authenticated"))
        ELSE LET user == get_user_from_session(table, user_table, token, t)
             IN  IF user = 0
                 THEN Raise(HTTPException(401, "Invalid or expired session"))
                 ELSE Return(user)

\* what the auth routes leave alone
rag == <<qdrant_client, chat_messages, user_profile, query, query_vector, context,
         prompt, embed_outcome, outcomes, calls, prompts>>

\* the body of a SessionResponse
SessionResponse(session, user_id, user) ==
    [status |-> 200,
     body |-> [session_token |-> session.session_token,
               user |-> [id |-> user_id, email |-> user.email, name |-> user.name]]]

\* the users with this email
UsersByEmail(user_table, email) ==
    { u \in DOMAIN user_table : user_table[u].email = email }

\* the rest of signup and signin: the session is created and returned
CreateSessionAndReturn(user_id, user) ==
    LET created == create_session(sessions, user_id, now)
    IN  IF created.raised
        THEN /\ response' = ServerError(created.exc)
             /\ UNCHANGED sessions
        ELSE /\ sessions' = created.value.table
             /\ response' = SessionResponse(created.value.session, user_id, user)

NextUserId(user_table) ==
    1 + CHOOSE u \in DOMAIN user_table : \A v \in DOMAIN user_table : v <= u

signup(email, name, password, software, hardware, os) ==
    /\ pc = "idle"
    /\ pc' = "done"
    /\ request' = [endpoint |-> "signup", email |-> email, password |-> password]
    /\ IF UsersByEmail(users, email) # {}
       THEN /\ response' = HTTPException(400, "Email already registered")
            /\ UNCHANGED <<users, user_profiles, sessions>>
       ELSE LET new_user == User(email, name)
                id == NextUserId(users)
            IN  /\ users' = users @@ (id :> new_user)
                /\ user_profiles' = user_profiles @@ (id :> ProfileRow(software, hardware, os))
                /\ CreateSessionAndReturn(id, new_user)
    /\ UNCHANGED <<rag, current_user, now, deleted_token>>

signin(email, password) ==
    /\ pc = "idle"
    /\ pc' = "done"
    /\ request' = [endpoint |-> "signin", email |-> email, password |-> password]
    /\ IF UsersByEmail(users, email) = {}
       THEN /\ response' = HTTPException(401, "Invalid credentials")
            /\ UNCHANGED sessions
       ELSE LET user_id == CHOOSE u \in UsersByEmail(users, email) : TRUE
            IN  CreateSessionAndReturn(user_id, users[user_id])
    /\ UNCHANGED <<rag, current_user, users, user_profiles, now, deleted_token>>

\* signout reads the cookie only
signout(cookie) ==
    /\ pc = "idle"
    /\ pc' = "done"
    /\ request' = [endpoint |-> "signout", cookie |-> cookie]
    /\ IF cookie # <<>>
       THEN /\ sessions' = delete_session(sessions, cookie)
            /\ deleted_token' = cookie
       ELSE UNCHANGED <<sessions, deleted_token>>
    /\ response' = [status |-> 200, body |-> [message |-> "Signed out successfully"]]
    /\ UNCHANGED <<rag, current_user, users, user_profiles, now>>

\* the profile part of the body of get_me
MeProfile(profile) ==
    IF profile = None
    THEN [software_background |-> None, hardware_background |-> None,
          operating_system |-> None, gpu_hardware |-> None,
          experience_level |-> Str(<<"beginner">>), preferred_language |-> Str(<<"en">>)]
    ELSE profile

\* an endpoint that needs the current user and writes nothing
get_me(cookie, authorization) ==
    /\ pc = "idle"
    /\ pc' = "done"
    /\ request' = [endpoint |-> "me", cookie |-> cookie, authorization |-> authorization]
    /\ LET current == get_current_user(cookie, authorization, sessions, users, now)
       IN  IF current.raised
           THEN /\ response' = current.exc
                /\ UNCHANGED current_user
           ELSE /\ current_user' = current.value
                /\ response' =
                       [status |-> 200,
                        body |-> [id |-> current.value,
                                  email |-> users[current.value].email,
                                  name |-> users[current.value].name,
                                  profile |-> MeProfile(user_profiles[current.value])]]
    /\ UNCHANGED <<rag, db>>

\* ask_question with its dependency get_current_user: a request that does not
\* authenticate is answered 401 before the handler runs
ask_question(cookie, authorization, question, selected_text, language) ==
    /\ pc = "idle"
    /\ request' = [endpoint |-> "ask", question |-> question,
                   selected_text |-> selected_text, language |-> language,
                   cookie |-> cookie, authorization |-> authorization]
    /\ LET current == get_current_user(cookie, authorization, sessions, users, now)
       IN  IF current.raised
           THEN /\ pc' = "done"
                /\ response' = current.exc
                /\ UNCHANGED <<current_user, user_profile, query>>
           ELSE /\ pc' = "embed"
                /\ current_user' = current.value
                /\ user_profile' = AskProfile(user_profiles[current.value])
                /\ query' = BuildQuery(question, selected_text)
                /\ UNCHANGED response
    /\ UNCHANGED <<db, chat_messages, prompts, query_vector, context, prompt,
                   embed_outcome, outcomes, calls>>

\* the instants at which requests arrive: some seconds after the start and
\* after each whole lifetime of a session
ClockValues ==
    { k * SESSION_SECONDS + sec : k \in 0..MaxLifetimes, sec \in 0..MaxSkew }

\* time passes between two requests: the clock shows t
Tick(t) ==
    /\ pc = "idle"
    /\ t > now
    /\ now' = t
    /\ UNCHANGED <<rag, pc, request, current_user, response, user_profiles, users,
                   sessions, deleted_token>>

\* a token signed with another key
FORGED_TOKEN ==
    <<jwt_encode([sub |-> StrOfInt(1), exp |-> 3 * SESSION_SECONDS], "guessed")>>

\* the tokens a client can present: those of the stored sessions, the one
\* last signed out, and a forged one
Presentable ==
    { row.session_token : row \in sessions }
        \cup ({deleted_token} \ {<<>>}) \cup {FORGED_TOKEN}

\* cookie and Authorization header of a request: a cookie, a header, or both
Credentials ==
    { <<cookie, <<>>>> : cookie \in Presentable \cup {<<>>} }
        \cup { <<<<>>, <<BEARER>> \o token>> : token \in Presentable \cup {<<>>} }
        \cup { <<<<>>, <<Text("Basic ")>> \o token>> : token \in Presentable }
        \cup { <<cookie, <<BEARER>> \o token>> : cookie, token \in Presentable }

SigninEmails == {"ada@example.com", "bob@example.com", "nobody@example.com"}

SignupEmails == {"ada@example.com", "new@example.com"}

Passwords == {"ada-secret", "guess"}

NextSessions ==
    \/ \E email \in SignupEmails :
           /\ Cardinality(sessions) < MaxSessions
           /\ signup(email, "Noor", "noor-secret", Str(<<"C++">>), None, None)
    \/ \E email \in SigninEmails, password \in Passwords :
           /\ Cardinality(sessions) < MaxSessions
           /\ signin(email, password)
    \/ \E cookie \in Presentable \cup {<<>>} : signout(cookie)
    \/ \E credentials \in Credentials : get_me(credentials[1], credentials[2])
    \/ \E t \in ClockValues : Tick(t)
    \/ Respond

SpecSessions == Init /\ [][NextSessions]_vars

(***************************************************************************)
(* Ask requests of signed-in users: the chat history                       *)
(***************************************************************************)
\* a request with a cookie or with a header, not with both
OneCredential == { c \in Credentials : c[1] = <<>> \/ c[2] = <<>> }

NextHistory ==
    \/ \E email \in {"ada@example.com", "bob@example.com"} :
           /\ Cardinality(sessions) < MaxSessions
           /\ signin(email, "ada-secret")
    \/ \E k \in 0..MaxLifetimes : Tick(k * SESSION_SECONDS)
    \/ \E credentials \in OneCredential, question \in Questions,
          language \in {Str(<<"en">>), Str(<<"ur">>)} :
           /\ Len(chat_messages) < MaxChats
           /\ ask_question(credentials[1], credentials[2], question, None, language)
    \/ \E outcome \in Answering(EmbedOutcomes) : EmbedReturns(outcome)
    \/ \E outcome \in ChatSearchOutcomes(qdrant_client) : SearchReturns(outcome)
    \/ \E outcome \in Answering(GenerateOutcomes) :
           GenerateReturns(outcome) /\ UNCHANGED prompts
    \/ Respond

SpecHistory == Init /\ [][NextHistory]_vars

(***************************************************************************)
(* Properties                                                              *)
(***************************************************************************)
AskDone == pc = "done" /\ request.endpoint = "ask"

\* sub occurs in s as a contiguous run of tokens
Contains(s, sub) ==
    \E i \in 0..(Len(s) - Len(sub)) :
        \A j \in 1..Len(sub) : s[i + j] = sub[j]

\* len(vector)
RECURSIVE VectorLen(_)
VectorLen(vector) ==
    IF vector = <<>> THEN 0 ELSE vector[1].count + VectorLen(Tail(vector))

\* every element of the vector equals x
VectorAll(vector, x) == \A i \in 1..Len(vector) : vector[i].value = x

Providers == {"embed", "search", "generate"}

NoneMalformed == \A p \in Providers : outcomes[p].kind # "malformed"

\* the handler returned a body with an answer text and a list of sources
WellFormedAnswer ==
    /\ response.status = 200
    /\ response.body.answer.type = "str"
    /\ response.body.sources = SOURCES

\* C1: whichever of the embedding provider, the vector search client and the
\* generation provider raise (none of them answering with a malformed
\* response), an ask request ends with no exception: the handler returns an
\* answer text that is a str, together with the sources list.
C1_PipelineAbsorbsFailures ==
    (AskDone /\ NoneMalformed) => WellFormedAnswer

\* C1 witness: a request in which all three providers raised was answered.
C1_AllThreeFailed ==
    /\ AskDone
    /\ \A p \in Providers : outcomes[p].kind = "raise"
    /\ WellFormedAnswer

\* the vector store is unavailable: the mock client stands in for it, or the
\* search call of this request raised
StoreUnavailable ==
    \/ qdrant_client = "MockQdrantClient"
    \/ outcomes.search.kind = "raise"

AnEmbedding == CHOOSE o \in EmbedOutcomes : o.kind = "ok"

\* what search_context returns with the mock client in use
MockModeContext ==
    search_context(<<>>, DEFAULT_LIMIT, "MockQdrantClient", AnEmbedding,
                   CHOOSE o \in SearchOutcomes("MockQdrantClient", DEFAULT_LIMIT) : TRUE).value

\* what search_context returns when the Qdrant client's search raises
RaiseModeContext ==
    search_context(<<>>, DEFAULT_LIMIT, "QdrantClient", AnEmbedding,
                   CHOOSE o \in SearchOutcomes("QdrantClient", DEFAULT_LIMIT) :
                       o.kind = "raise").value

\* C2: whenever the vector store is unavailable (mock client in use, or the
\* search call raises), search_context returns exactly one passage, and its
\* text is the same one placeholder text in both failure modes.
C2_OnePlaceholderText ==
    (pc = "generate" /\ StoreUnavailable) =>
        /\ Len(context) = 1
        /\ context = MockModeContext
        /\ context = RaiseModeContext

\* C3: a malformed provider response is handled as an unavailable provider:
\* a malformed embedding result gives the zero vector, a malformed search
\* response gives the one canned passage, a generation response without text
\* gives the apology string, and the ask handler ends with no exception.
C3_MalformedFallsBack ==
    /\ (pc = "search" /\ outcomes.embed.kind = "malformed")
           => query_vector = ZERO_VECTOR
    /\ (AskDone /\ outcomes.search.kind = "malformed")
           => context = <<Str(FALLBACK_PASSAGE)>>
    /\ (AskDone /\ outcomes.generate.kind = "malformed")
           => /\ response.status = 200
              /\ Contains(response.body.answer.val, APOLOGY_PREFIX)
    /\ (AskDone /\ ~NoneMalformed) => WellFormedAnswer

\* the prompt shows "Unknown" after the label of a profile field that is None
ShownAsUnknown(label, key) ==
    (key \in DOMAIN user_profile.items /\ user_profile.items[key] = None)
        => Contains(prompt.val, <<label, "Unknown">>)

\* C4: in the prompt composed from a user profile (by generate_answer and by
\* personalize_content), every background field whose value is None is shown
\* as the literal text "Unknown".
C4_NoneShownAsUnknown ==
    (prompt # None /\ user_profile # None
        /\ request.endpoint \in {"ask", "personalize"}) =>
        /\ ShownAsUnknown("- Software Background: ", "software_background")
        /\ ShownAsUnknown("- Hardware Background: ", "hardware_background")
        /\ ShownAsUnknown("- OS: ", "operating_system")

\* C5: if the embedding provider raises, generate_embedding returns a vector
\* of exactly 768 elements, all 0.0, and raises nothing: search_context goes
\* on to the search call with that vector.
C5_ZeroVectorOnEmbedFailure ==
    (request.endpoint = "ask" /\ outcomes.embed.kind = "raise") =>
        /\ pc = "search" =>
              /\ VectorLen(query_vector) = EMBEDDING_DIM
              /\ VectorAll(query_vector, 0)
        /\ pc \in {"search", "generate", "done"}
        /\ pc \in {"generate", "done"} =>
              \E i \in 1..Len(calls) : calls[i].api = "search"

\* C5 witness: the provider raised and the search call is about to be made
\* with the zero vector.
C5_EmbedFailed ==
    /\ pc = "search"
    /\ outcomes.embed.kind = "raise"
    /\ query_vector = ZERO_VECTOR

\* C6: if the generation provider raises during generate_answer, the call
\* returns the apology string, which contains "error" and ends with the
\* provider's error message, and the handler ends with no exception.
C6_ApologyOnGenerateFailure ==
    (AskDone /\ outcomes.generate.kind = "raise") =>
        /\ WellFormedAnswer
        /\ response.body.answer.val = APOLOGY_PREFIX \o outcomes.generate.exc
        /\ Contains(response.body.answer.val, <<"error">>)
        /\ outcomes.generate.exc # <<>>
        /\ Contains(response.body.answer.val, outcomes.generate.exc)

\* C6 witness: an ask request whose generation call raised was answered with
\* the apology.
C6_GenerateFailed ==
    /\ AskDone
    /\ outcomes.generate.kind = "raise"
    /\ Contains(response.body.answer.val, APOLOGY_PREFIX)

AskInFlight == request.endpoint = "ask"

\* the query text begins with the selected text, set before the question
SelectedTextPrefixed ==
    query.val = <<"Based on this text: '">> \o request.selected_text.val
                \o <<"'\n\nQuestion: ">> \o request.question.val

\* the text the embedding provider was given is the query
QueryEmbedded ==
    \A i \in 1..Len(calls) : calls[i].api = "embed" => calls[i].content = query.val

\* C7 as stated: for every ask request whose selected_text is present (not
\* None), the query given to search_context differs from the question alone
\* and carries the selected text before the question.
C7_PresentSelectedTextChangesQuery ==
    (AskInFlight /\ request.selected_text # None) =>
        /\ query # request.question
        /\ SelectedTextPrefixed

\* C7 amended: for every ask request whose selected_text is a non-empty
\* string, the query given to search_context, which is the text the embedding
\* provider receives, carries the selected text before the question and
\* differs from the query built for the same question without selected text;
\* with selected_text None the query is the question.
C7_NonEmptySelectedTextChangesQuery ==
    AskInFlight =>
        /\ QueryEmbedded
        /\ Truthy(request.selected_text) =>
              /\ query # BuildQuery(request.question, None)
              /\ SelectedTextPrefixed
        /\ request.selected_text = None => query = request.question

\* C7 witness: the embedding provider was called with a query that carries
\* the selected text.
C7_SelectedTextEmbedded ==
    /\ AskInFlight
    /\ Truthy(request.selected_text)
    /\ Len(calls) >= 1
    /\ calls[1].api = "embed"
    /\ Contains(calls[1].content, request.selected_text.val)
    /\ calls[1].content # request.question.val

\* C8: the prompt of an ask request contains the Urdu directive exactly when
\* the request's language is "ur".
C8_UrduDirectiveIffUr ==
    (AskInFlight /\ prompt # None) =>
        (Contains(prompt.val, URDU_INSTRUCTION) <=> request.language = Str(<<"ur">>))

\* C8 witness: a prompt composed for language "ur" carries the directive.
C8_UrduPrompt ==
    /\ AskInFlight
    /\ prompt # None
    /\ request.language = Str(<<"ur">>)
    /\ Contains(prompt.val, URDU_INSTRUCTION)

\* C9: when the generation provider fails, personalize_content and
\* translate_to_urdu return the content they were given, and the handler
\* ends with no exception.
C9_ContentUnchangedOnFailure ==
    (pc = "done" /\ outcomes.generate.kind \in {"raise", "malformed"}) =>
        /\ request.endpoint = "personalize" =>
              /\ response.status = 200
              /\ response.body.personalized_content = request.content
        /\ request.endpoint = "translate" =>
              /\ response.status = 200
              /\ response.body.translated_content = request.content

\* C9 witness: a personalize request whose generation call raised was
\* answered with its own content.
C9_PersonalizeFailed ==
    /\ pc = "done"
    /\ request.endpoint = "personalize"
    /\ outcomes.generate.kind = "raise"
    /\ response.status = 200
    /\ response.body.personalized_content = request.content

\* the points a client's search can return
AllPoints == Points \cup {MockQdrantClient_search(<<>>, DEFAULT_LIMIT)[1]}

\* the passage is the text of a stored point with this score
PassageOf(passage, score) ==
    \E p \in AllPoints :
        /\ ~HitText(p).raised
        /\ HitText(p).value = passage
        /\ p.score = score

\* the best score a passage can have come with; the canned passage of the
\* except branch comes with none
BestScore(passage) ==
    IF \E p \in AllPoints : PassageOf(passage, p.score)
    THEN CHOOSE sc \in {p.score : p \in AllPoints} :
             /\ PassageOf(passage, sc)
             /\ \A p \in AllPoints : PassageOf(passage, p.score) => p.score <= sc
    ELSE 0

\* C10: search_context returns at most `limit` passages (3, the only limit the
\* program asks for), the passage of a better score before the passage of a
\* worse one.
C10_AtMostLimitBestFirst ==
    (AskInFlight /\ pc \in {"generate", "done"}) =>
        /\ Len(context) <= DEFAULT_LIMIT
        /\ \A i, j \in 1..Len(context) :
               i < j => BestScore(context[i]) >= BestScore(context[j])

\* C10 witness: search_context returned as many passages as the limit allows,
\* of different scores.
C10_FullResponse ==
    /\ pc = "generate"
    /\ Len(context) = DEFAULT_LIMIT
    /\ BestScore(context[1]) > BestScore(context[DEFAULT_LIMIT])

\* C11: every response of an ask request carries the sources list
\* ["Textbook Content"], of exactly one element, whatever passages were
\* retrieved and whichever of the fallbacks (zero vector, canned passage,
\* apology) were taken.
C11_SourcesIsTextbookContent ==
    (AskDone /\ response.status = 200) =>
        /\ Len(response.body.sources) = 1
        /\ response.body.sources = <<"Textbook Content">>

\* C11 witness: a request for which several passages were retrieved, and whose
\* generation call fell back to the apology, was answered with the one source.
C11_SeveralPassagesOneSource ==
    /\ AskDone
    /\ Len(context) > 1
    /\ outcomes.generate.kind = "raise"
    /\ response.status = 200
    /\ response.body.sources = <<"Textbook Content">>

\* two compositions were made from the same question, context, profile and
\* language
SameInputs(a, b) ==
    /\ a.question = b.question
    /\ a.context = b.context
    /\ a.user_profile = b.user_profile
    /\ a.language = b.language

\* C12: the prompt composed for an ask request is a function of the request's
\* question, context, profile and language only: two compositions from the
\* same inputs, whatever requests were handled before and between them, give
\* the same prompt; and no step writes the shared vector client.
C12_PromptFunctionOfInputs ==
    [][/\ qdrant_client' = qdrant_client
       /\ \A i, j \in 1..Len(prompts') :
              SameInputs(prompts'[i], prompts'[j])
                  => prompts'[i].prompt = prompts'[j].prompt]_vars

\* C12 witness: a second prompt was composed from the inputs of the first,
\* after the first exchange was stored, and is the same text.
C12_SameInputsTwice ==
    /\ AskDone
    /\ Len(prompts) = 2
    /\ Len(chat_messages) = 2
    /\ SameInputs(prompts[1], prompts[2])
    /\ prompts[1].prompt = prompts[2].prompt
    /\ prompt = prompts[2].prompt

\* the provider calls of the request so far, by name
CallNames == [i \in 1..Len(calls) |-> calls[i].api]

CALL_ORDER == <<"embed", "search", "generate">>

\* C13: within one ask request the provider calls are embed, then search,
\* then generate, each exactly once: none is repeated, the search is issued
\* with the zero vector when the embedding failed, and the generation is
\* issued with the canned passage when the search failed.
C13_EmbedSearchGenerateOnce ==
    /\ AskInFlight =>
          /\ Len(calls) <= Len(CALL_ORDER)
          /\ CallNames = SubSeq(CALL_ORDER, 1, Len(calls))
    /\ AskDone => CallNames = CALL_ORDER
    /\ (pc = "search" /\ outcomes.embed.kind = "raise")
           => query_vector = ZERO_VECTOR
    /\ (AskDone /\ outcomes.search.kind = "raise")
           => /\ context = <<Str(FALLBACK_PASSAGE)>>
              /\ Contains(prompt.val, FALLBACK_PASSAGE)

\* the step with which an ask request returns its answer
AskReturns == AskInFlight' /\ pc # "done" /\ pc' = "done" /\ response'.status = 200

\* the user whom the credentials of the request authenticate
Authenticated(user) ==
    LET current == get_current_user(request.cookie, request.authorization,
                                    sessions, users, now)
    IN  ~current.raised /\ current.value = user

\* C14: an ask request that returns a response stores exactly one
\* chat_messages row, with the step that follows the generation call: the row
\* of the authenticated user, with the question, the answer text returned
\* (the apology too), the retrieved context and the language of the request;
\* no other step of an ask request stores a row, and a request answered 401
\* stores none and calls no provider.
C14_OneRecordPerAnswer ==
    [][/\ AskReturns =>
             /\ Len(chat_messages') = Len(chat_messages) + 1
             /\ SubSeq(chat_messages', 1, Len(chat_messages)) = chat_messages
             /\ LET row == chat_messages'[Len(chat_messages')]
                IN  /\ Authenticated(row.user_id)
                    /\ row.message = request.question
                    /\ row.response = response'.body.answer
                    /\ row.context_used = Str(Join(<<"\n">>, context).value)
                    /\ row.language = request.language
             /\ calls' = Append(calls, [api |-> "generate"])
       /\ (AskInFlight' /\ ~AskReturns) => chat_messages' = chat_messages
       /\ (AskInFlight' /\ response'.status = 401) => calls' = <<>>]_vars

\* C14 witness: a request in Urdu that authenticated with a Bearer header was
\* answered with the apology, and the one row stored holds it.
C14_ApologyStored ==
    /\ AskDone
    /\ request.cookie = <<>>
    /\ request.language = Str(<<"ur">>)
    /\ outcomes.generate.kind = "raise"
    /\ response.status = 200
    /\ Len(chat_messages) = 1
    /\ chat_messages[1].response = response.body.answer
    /\ chat_messages[1].user_id = current_user

\* a sign-in request is handled with this step
SigninStep == pc = "idle" /\ pc' = "done" /\ request'.endpoint = "signin"

\* C15: a sign-in whose email is that of a stored user creates a new session
\* row for that user and returns its token with status 200, whatever the
\* password; a sign-in for an unknown email is answered 401 and creates no
\* session.
C15_SigninCreatesSession ==
    [][SigninStep =>
          IF UsersByEmail(users, request'.email) # {}
          THEN /\ response'.status = 200
               /\ Cardinality(sessions') = Cardinality(sessions) + 1
               /\ \E row \in sessions' \ sessions :
                      /\ row.session_token = response'.body.session_token
                      /\ row.user_id \in UsersByEmail(users, request'.email)
                      /\ sessions' = sessions \cup {row}
          ELSE /\ response'.status = 401
               /\ sessions' = sessions]_vars

\* a request to an endpoint that needs the current user has been answered
MeDone == pc = "done" /\ request.endpoint = "me"

\* the token the request presents: its cookie, else its Bearer header
Presented == RequestToken(request.cookie, request.authorization)

\* C16: a request authenticates only if a sessions row with the token it
\* presents is stored and has not expired; once delete_session has run for a
\* token, every later request that presents it, by cookie or by Bearer
\* header, is answered 401; and a sign-out deletes no row of another token.
C16_DeletedTokenRejected ==
    [][/\ (MeDone' /\ response'.status = 200) =>
              \E row \in sessions' :
                  /\ row.session_token = Presented'
                  /\ row.expires_at > now'
                  /\ row.user_id = current_user'
       /\ (MeDone' /\ deleted_token' # <<>> /\ Presented' = deleted_token')
              => response'.status = 401
       /\ (pc = "idle" /\ request'.endpoint = "signout") =>
              /\ sessions' \subseteq sessions
              /\ \A row \in sessions \ sessions' :
                     row.session_token = request'.cookie]_vars

====
